---- MODULE Spec2Model ----
(***************************************************************************)
(* A model of mcpackage.util.sync_files (src/mcpackage/util.py), the       *)
(* timestamp-based one-way directory synchroniser of minecraft-mod-package.*)
(*                                                                         *)
(* A relative path is a sequence of names: 'a/a' is <<"a", "a">> and the   *)
(* root ('.' for os.walk, '' for os.path.dirname) is <<>>.  A file system  *)
(* tree maps every path of the universe to a node (absent, file, directory *)
(* or symbolic link).  One call of sync_files is a process whose position  *)
(* is pc; every file system call of the reconciliation and completion      *)
(* phases is a step of its own.  Further sections model InitCommand        *)
(* (init.py), BuildCommand (build.py) and util.merge_config, each with a   *)
(* specification of its own in which the others stay idle.                 *)
(***************************************************************************)
EXTENDS Naturals, Sequences, FiniteSets, TLC

VARIABLES
    srcfs,      \* the tree under src_dir
    destfs,     \* the tree under dest_dir
    files,      \* argument files: [given, paths]   (given = FALSE: None)
    keep,       \* argument keep:  [given, paths]
    cwd,        \* the process's working directory: "src" or "other"
    pc,         \* "start", "discover", "walk", "complete", "done", "failed"
    err,        \* the exception that ended the call ("" while none)
    raisedBy,   \* the library call that raised it
    keep_dirs, keep_files, src_dirs,
    src_files,  \* maps each relative file path to the source modified time
    todo,       \* os.walk(dest_dir): directories still to be visited
    parent,     \* os.walk(dest_dir): the directory being visited
    dirs,       \* its sub-directory list (entries are deleted from it)
    dirsTodo,   \* entries of dirs the loop of line 242 has not reached
    filesTodo,  \* entries of its file list the loop of line 251 has not reached
    remaining,  \* entries of src_files the loop of line 266 has not reached
    ops,        \* the destination operations of this call, in order
    calls,      \* number of calls started
    results,    \* how the earlier calls ended
    selected,   \* the Source File Set as discovery left it
    dest0,      \* the destination tree when this call started
    destFirst,  \* the destination tree when the first call started
    faults,     \* injected I/O failures so far
    external,   \* removals by another actor so far
    \* the loops of the discovery, for the specification that takes them
    \* one turn at a time (SpecSteps):
    pending,    \* entries of keep (line 175) or files (line 190) still to come
    loop_file,  \* file_path of the loop of line 175 or 190 (Root: between turns)
    loop_dir,   \* dir_path of the loop of line 178 or 192
    src_todo,   \* os.walk(src_dir): directories still to be yielded
    visited,    \* the real paths the walk of src_dir has encountered (line 215)
    \* InitCommand.run_work (src/mcpackage/init.py):
    mod_dir,    \* the mod directory: [kind, entries]
    force,      \* self.force
    init_pc,    \* the position in run_work ("idle": the command is not run)
    result,     \* how run_work ended: "", "return 0", "return 1", "raise"
    log,        \* the messages logged, in order
    created,    \* the scaffolding run_work has created
    mod_dir0,   \* the mod directory when run_work started
    \* BuildCommand.run and run_work (src/mcpackage/build.py):
    build_pc,   \* the position in run / run_work ("idle": the command is not run)
    build_result,   \* what run returned ("": it has not returned)
    events,     \* the steps of the build so far, in order, each with its outcome
    mcp_src_fs, \* the tree under mcp_src_dir (forge/mcp/src/minecraft)
    source_fs,  \* the tree under source_dir
    build_fs,   \* the tree under dest_dir (build/src/minecraft)
    build_fs0,  \* that tree when the build started
    build_fs1,  \* that tree between the two calls of sync_files
    java_source_files, python_source_files,
    jython,     \* what the configuration and the disk hold of Jython and Java
    \* util.merge_config (src/mcpackage/util.py):
    heap,       \* the dict objects: address -> dict (key -> value)
    base,       \* address of argument base
    update,     \* address of argument update
    merge,      \* address of the returned dict (0: nothing returned)
    merge_pc    \* "idle", "start", "returned", "raised"

syncvars == <<srcfs, destfs, files, keep, cwd, pc, err, raisedBy, keep_dirs, keep_files,
          src_dirs, src_files, todo, parent, dirs, dirsTodo, filesTodo,
          remaining, ops,
          calls, results, selected, dest0, destFirst, faults, external,
          pending, loop_file, loop_dir, src_todo, visited>>
discovery == <<pending, loop_file, loop_dir, src_todo, visited>>
initcmd == <<mod_dir, force, init_pc, result, log, created, mod_dir0>>
buildcmd == <<build_pc, build_result, events, mcp_src_fs, source_fs, build_fs, build_fs0,
              build_fs1, java_source_files, python_source_files, jython>>
mergecmd == <<heap, base, update, merge, merge_pc>>
vars == <<syncvars, initcmd, buildcmd, mergecmd>>

args == <<srcfs, files, keep, cwd>>
walkvars == <<todo, parent, dirs, dirsTodo, filesTodo>>
ghosts == <<calls, results, dest0, destFirst>>

(***************************************************************************)
(* Bounds                                                                  *)
(***************************************************************************)
MaxCalls == 2        \* calls of sync_files in a row with the same arguments
MaxLinkDepth == 2    \* symbolic links the OS follows in one path (ELOOP after)
MaxFaults == 1       \* injected I/O failures in one behaviour
MaxExternal == 1     \* removals by another actor in one behaviour
MaxDepth == 3        \* names in the longest path given to the ancestor loop of lines 177-180

(***************************************************************************)
(* Paths and trees                                                         *)
(***************************************************************************)
Root == <<>>
A == <<"a">>
AA == <<"a", "a">>
AB == <<"a", "b">>
RelPaths == {A, AA, AB}
AllPaths == {Root} \cup RelPaths

SrcTime == {2}
DestTimes == {1, 2, 3}
Now == 4

NoNode == [kind |-> "none", mtime |-> 0, data |-> <<>>]
DirNode == [kind |-> "dir", mtime |-> 0, data |-> <<>>]
LinkNode == [kind |-> "link", mtime |-> 0, data |-> <<>>]
SrcFile(p) == [kind |-> "file", mtime |-> CHOOSE t \in SrcTime : TRUE,
               data |-> <<"src">> \o p]
OldFile(p, t) == [kind |-> "file", mtime |-> t, data |-> <<"old">> \o p]
PartialFile == [kind |-> "file", mtime |-> Now, data |-> <<"partial">>]

\* os.path.dirname of a relative path ('' for a bare name).
Dirname(p) == IF p = <<>> THEN <<>> ELSE SubSeq(p, 1, Len(p) - 1)
\* os.path.basename
Basename(p) == p[Len(p)]
\* os.path.join(parent, name), and the bare name when parent is '.'
Join(par, name) == Append(par, name)

IsPrefix(d, p) == Len(d) <= Len(p) /\ SubSeq(p, 1, Len(d)) = d

\* A symbolic link of the model points to the directory that holds it.
LinkTarget(p) == Dirname(p)

WellFormed(t) ==
    \A p \in RelPaths :
        t[p].kind # "none" => t[Dirname(p)].kind = "dir"

SrcTrees ==
    { t \in [AllPaths -> {NoNode, DirNode, LinkNode} \cup {SrcFile(p) : p \in RelPaths}] :
        /\ t[Root] = DirNode
        /\ WellFormed(t)
        /\ t[A] \in {NoNode, DirNode, SrcFile(A)}
        /\ t[AA] \in {NoNode, LinkNode, SrcFile(AA)}
        /\ t[AB] \in {NoNode, SrcFile(AB)} }

DestTrees ==
    { t \in [AllPaths -> {NoNode, DirNode}
                           \cup {OldFile(p, m) : p \in RelPaths, m \in DestTimes}] :
        /\ t[Root] \in {NoNode, DirNode}
        /\ WellFormed(t)
        /\ t[A] \in {NoNode, DirNode} \cup {OldFile(A, m) : m \in DestTimes}
        /\ t[AA] \in {NoNode} \cup {OldFile(AA, m) : m \in DestTimes}
        /\ t[AB] \in {NoNode} \cup {OldFile(AB, m) : m \in DestTimes} }

NoArg == [given |-> FALSE, paths |-> {}]
Arg(S) == [given |-> TRUE, paths |-> S]

\* files names files of the source tree, or paths that do not exist there.
FilesArgs(t) ==
    {NoArg} \cup {Arg(S) : S \in SUBSET {p \in RelPaths : t[p].kind \in {"file", "none"}}}
KeepArgs == {NoArg} \cup {Arg(S) : S \in (SUBSET RelPaths) \ {{}}}

Files(t) == {p \in RelPaths : t[p].kind = "file"}
Exists(t, p) == t[p].kind # "none"

(***************************************************************************)
(* Discovery (lines 172-233)                                               *)
(***************************************************************************)
\* The loop "while dir_path: add(dir_path); dir_path = dirname(dir_path)".
ParentDirsOnce(dir_path) == IF dir_path = <<>> THEN {} ELSE {dir_path}

RECURSIVE ParentDirs(_)
ParentDirs(dir_path) ==
    IF dir_path = <<>> THEN {}
    ELSE {dir_path} \cup ParentDirs(Dirname(dir_path))

KeepDirsNoParents(k) == {}

\* Lines 172-183: the keep sets of a keep argument.
KeepDirs(k) ==
    IF k.given THEN UNION {ParentDirs(Dirname(file_path)) : file_path \in k.paths}
    ELSE {}
KeepFiles(k) == IF k.given THEN k.paths ELSE {}

MissingSkipped(t, f) == {}

\* Lines 190-198: the source sets of an explicit files argument.
\* os.path.getmtime raises OSError (ENOENT) for a path that does not exist.
MissingFiles(t, f) == {file_path \in f.paths : ~Exists(t, file_path)}
\* The errno of that OSError: ENOTDIR when a directory of the path is a file.
LookupError(t, file_path) ==
    IF \E d \in ParentDirs(Dirname(file_path)) : t[d].kind = "file"
      THEN "ENOTDIR" ELSE "ENOENT"
FilesDirs(f) == UNION {ParentDirs(Dirname(file_path)) : file_path \in f.paths}
FilesTimes(t, f) == [file_path \in f.paths |-> t[file_path].mtime]

\* The canonical path of a relative path of the source tree: every symbolic
\* link on the way is replaced by its target.
RECURSIVE Resolve(_, _)
Resolve(t, vp) ==
    IF vp = <<>> THEN <<>>
    ELSE LET q == Join(Resolve(t, Dirname(vp)), Basename(vp))
         IN IF q \in DOMAIN t /\ t[q].kind = "link" THEN LinkTarget(q) ELSE q

\* The number of symbolic links followed when the OS looks up vp.
RECURSIVE LinkCount(_, _)
LinkCount(t, vp) ==
    IF vp = <<>> THEN 0
    ELSE LET q == Join(Resolve(t, Dirname(vp)), Basename(vp))
         IN LinkCount(t, Dirname(vp))
              + (IF q \in DOMAIN t /\ t[q].kind = "link" THEN 1 ELSE 0)

\* stat(src_dir/vp) fails with ELOOP past the OS's limit of links.
TooManyLinks(t, vp) == LinkCount(t, vp) > MaxLinkDepth

\* os.listdir's names of directory vp of the source tree.
Names(t, vp) ==
    {Basename(q) : q \in {c \in RelPaths : Dirname(c) = Resolve(t, vp) /\ Exists(t, c)}}

\* os.walk sorts a name under dirs when os.path.isdir (which follows links
\* and is False when stat fails) holds, and under files otherwise.
IsDir(t, vp) ==
    /\ ~TooManyLinks(t, vp)
    /\ Resolve(t, vp) \in DOMAIN t
    /\ t[Resolve(t, vp)].kind = "dir"
WalkDirs(t, vp) == {Join(vp, n) : n \in {m \in Names(t, vp) : IsDir(t, Join(vp, m))}}
WalkFilesTop(t, vp) ==
    IF vp = Root THEN {Join(vp, n) : n \in {m \in Names(t, vp) : ~IsDir(t, Join(vp, m))}}
    ELSE {}
WalkFiles(t, vp) == {Join(vp, n) : n \in {m \in Names(t, vp) : ~IsDir(t, Join(vp, m))}}

\* Line 208: os.path.realpath(parent) of the RELATIVE path parent.  A
\* relative path is resolved against the working directory: it is the
\* canonical path of the source entry only when the process runs in src_dir.
\* In another working directory (which holds no entries of these names) it
\* is that directory's path followed by parent, unchanged.
Realpath(t, c, par) ==
    IF c = "src" THEN <<"src">> \o Resolve(t, par) ELSE <<c>> \o par

\* A set as a sequence, in some order (os.listdir's).
RECURSIVE SeqOf(_)
SeqOf(S) ==
    IF S = {} THEN <<>>
    ELSE LET x == CHOOSE y \in S : TRUE IN <<x>> \o SeqOf(S \ {x})

\* Lines 202-233: os.walk(src_dir, followlinks=True) with the recursion
\* check.  stack holds the directories os.walk still has to yield;
\* encountered holds the real paths seen (the keys of the code's map).
RECURSIVE WalkSource(_, _, _, _, _, _)
WalkSource(t, c, stack, encountered, sdirs, sfiles) ==
    IF stack = <<>> THEN [err |-> "", dirs |-> sdirs, files |-> sfiles]
    ELSE LET par == Head(stack)
             real == Realpath(t, c, par)
             ds == WalkDirs(t, par)
             fs == WalkFiles(t, par)
         IN IF real \in encountered
              THEN [err |-> "cycle", dirs |-> sdirs, files |-> sfiles]
            ELSE IF \E f \in fs : TooManyLinks(t, f)
              THEN [err |-> "ELOOP", dirs |-> sdirs \cup ds, files |-> sfiles]
            ELSE WalkSource(t, c, SeqOf(ds) \o Tail(stack),
                            encountered \cup {real}, sdirs \cup ds, sfiles \cup fs)

Discovered(t, c) == WalkSource(t, c, <<Root>>, {}, {}, {})
WalkTimes(t, c) ==
    [file_path \in Discovered(t, c).files |-> t[Resolve(t, file_path)].mtime]

(***************************************************************************)
(* Destination operations                                                  *)
(***************************************************************************)
WithoutNothing(f, x) == f

\* Line 260: del src_files[file_path].
Without(f, x) == [y \in DOMAIN f \ {x} |-> f[y]]

Op(o, p, q) == [op |-> o, path |-> p, target |-> q]

\* os.walk(dest_dir) lists the entries of a directory as dirs and files.
DestDirs(t, d) == {c \in RelPaths : Dirname(c) = d /\ t[c].kind = "dir"}
DestFiles(t, d) == {c \in RelPaths : Dirname(c) = d /\ t[c].kind \in {"file", "link"}}

\* d and everything beneath it removed.
RemoveTree(t, d) == [p \in DOMAIN t |-> IF IsPrefix(d, p) THEN NoNode ELSE t[p]]

\* shutil.rmtree(dest_dir/d), line 247: raises when d is not there.
Rmtree(t, d) ==
    IF ~Exists(t, d) THEN [err |-> "ENOENT", fs |-> t]
    ELSE IF t[d].kind # "dir" THEN [err |-> "ENOTDIR", fs |-> t]
    ELSE [err |-> "", fs |-> RemoveTree(t, d)]

RemoveTolerant(t, p) ==
    IF ~Exists(t, p) THEN [err |-> "", fs |-> t]
    ELSE [err |-> "", fs |-> [t EXCEPT ![p] = NoNode]]

\* os.remove(dest_dir/p), line 263: raises when p is not there.
Remove(t, p) ==
    IF ~Exists(t, p) THEN [err |-> "ENOENT", fs |-> t]
    ELSE IF t[p].kind = "dir" THEN [err |-> "EISDIR", fs |-> t]
    ELSE [err |-> "", fs |-> [t EXCEPT ![p] = NoNode]]

\* os.mkdir(dest_dir/d).  The directory that holds dest_dir exists.
Mkdir(t, d) ==
    IF Exists(t, d) THEN [err |-> "EEXIST", fs |-> t]
    ELSE IF d # Root /\ t[Dirname(d)].kind = "none" THEN [err |-> "ENOENT", fs |-> t]
    ELSE IF d # Root /\ t[Dirname(d)].kind # "dir" THEN [err |-> "ENOTDIR", fs |-> t]
    ELSE [err |-> "", fs |-> [t EXCEPT ![d] = DirNode]]

\* os.mkdir in place of os.makedirs: no ancestor is created.
MakedirsFlat(t, d) == Mkdir(t, d)

\* os.makedirs(dest_dir/d): the missing ancestors first (an EEXIST of theirs
\* is ignored), then d itself.
RECURSIVE Makedirs(_, _)
Makedirs(t, d) ==
    IF d # Root /\ ~Exists(t, Dirname(d))
      THEN LET up == Makedirs(t, Dirname(d))
           IN IF up.err \in {"", "EEXIST"} THEN Mkdir(up.fs, d) ELSE up
      ELSE Mkdir(t, d)

\* Lines 271-275: only EEXIST is swallowed.
MakedirsError(e) == IF e = "EEXIST" THEN "" ELSE e

\* shutil.copy2(src_dir/file_path, dest_dir/dst): when the destination is a
\* directory the file is written INTO it under the source's base name; the
\* copy carries the content and (copystat) the modification time.
Copy2Target(t, file_path, dst) ==
    IF t[dst].kind = "dir" THEN Join(dst, Basename(file_path)) ELSE dst
Copy2(t, node, file_path, dst) ==
    LET target == Copy2Target(t, file_path, dst)
    IN IF target \notin DOMAIN t THEN [err |-> "EUNIVERSE", fs |-> t]
       ELSE IF t[Dirname(target)].kind = "none" THEN [err |-> "ENOENT", fs |-> t]
       ELSE IF t[Dirname(target)].kind # "dir" THEN [err |-> "ENOTDIR", fs |-> t]
       ELSE IF t[target].kind = "dir" THEN [err |-> "EISDIR", fs |-> t]
       ELSE [err |-> "", fs |-> [t EXCEPT ![target] = node]]

StaleOrSame(dest_mtime, src_mtime) == dest_mtime <= src_mtime

\* Line 255: the destination file is older than the source file.
Stale(dest_mtime, src_mtime) == dest_mtime < src_mtime
PrunedKept(ds, dir_path) == ds

\* Line 248: del dirs[i], which keeps os.walk from descending into dir_path.
Pruned(ds, dir_path) == ds \ {dir_path}
\* Line 244.
UnneededDir(dir_path, sdirs, kdirs) == dir_path \notin sdirs /\ dir_path \notin kdirs
SrcNode(t, file_path) == t[Resolve(t, file_path)]

\* A destination file with the keep list asked first.
DecisionKeepFirst(file_path, sfiles, kfiles) ==
    IF file_path \in kfiles THEN "keep"
    ELSE IF file_path \in DOMAIN sfiles THEN "sync"
    ELSE "remove"

\* Lines 254-263: what becomes of a destination file: "if file_path in
\* src_files" comes first, "elif file_path not in keep_files" second.
Decision(file_path, sfiles, kfiles) ==
    IF file_path \in DOMAIN sfiles THEN "sync"
    ELSE IF file_path \notin kfiles THEN "remove"
    ELSE "keep"

(***************************************************************************)
(* Lines 237-278 as a function of the destination tree and the sets of     *)
(* the discovery, the entries of a directory taken in a fixed order.  A    *)
(* state st is [err, fs, files, dirs]: the error raised (if any), the      *)
(* destination tree, src_files, and the entries left in dirs.              *)
(***************************************************************************)
\* Lines 242-248 for the entries ds of dirs in turn.
RECURSIVE DirsChecked(_, _, _, _)
DirsChecked(st, ds, sdirs, kdirs) ==
    IF ds = <<>> \/ st.err # "" THEN st
    ELSE IF UnneededDir(Head(ds), sdirs, kdirs)
      THEN LET r == Rmtree(st.fs, Head(ds))
           IN DirsChecked([st EXCEPT !.err = r.err, !.fs = r.fs], Tail(ds), sdirs, kdirs)
    ELSE DirsChecked([st EXCEPT !.dirs = Append(@, Head(ds))], Tail(ds), sdirs, kdirs)

\* Lines 251-263 for the entries fl of files in turn.
RECURSIVE FilesChecked(_, _, _, _)
FilesChecked(st, fl, s, kfiles) ==
    IF fl = <<>> \/ st.err # "" THEN st
    ELSE LET file_path == Head(fl)
         IN IF Decision(file_path, st.files, kfiles) = "sync"
              THEN IF ~Exists(st.fs, file_path)
                     THEN [st EXCEPT !.err = "ENOENT"]
                   ELSE IF Stale(st.fs[file_path].mtime, st.files[file_path])
                     THEN LET c == Copy2(st.fs, SrcNode(s, file_path), file_path, file_path)
                          IN FilesChecked([st EXCEPT !.err = c.err, !.fs = c.fs,
                                                     !.files = Without(@, file_path)],
                                          Tail(fl), s, kfiles)
                   ELSE FilesChecked([st EXCEPT !.files = Without(@, file_path)],
                                     Tail(fl), s, kfiles)
            ELSE IF Decision(file_path, st.files, kfiles) = "remove"
              THEN LET r == Remove(st.fs, file_path)
                   IN FilesChecked([st EXCEPT !.err = r.err, !.fs = r.fs], Tail(fl), s, kfiles)
            ELSE FilesChecked(st, Tail(fl), s, kfiles)

\* Line 237: os.walk(dest_dir) from a stack of directories, top down.
RECURSIVE Walked(_, _, _, _, _, _)
Walked(st, stack, s, sdirs, kdirs, kfiles) ==
    IF stack = <<>> \/ st.err # "" THEN st
    ELSE IF st.fs[Head(stack)].kind # "dir"
      THEN Walked(st, Tail(stack), s, sdirs, kdirs, kfiles)
    ELSE LET listedDirs == SeqOf(DestDirs(st.fs, Head(stack)))
             listedFiles == SeqOf(DestFiles(st.fs, Head(stack)))
             d == DirsChecked([st EXCEPT !.dirs = <<>>], listedDirs, sdirs, kdirs)
             f == FilesChecked(d, listedFiles, s, kfiles)
         IN Walked(f, f.dirs \o Tail(stack), s, sdirs, kdirs, kfiles)

\* Lines 266-278 for the paths left in src_files in turn.
RECURSIVE Completed(_, _, _)
Completed(st, rest, s) ==
    IF rest = <<>> \/ st.err # "" THEN st
    ELSE LET file_path == Head(rest)
             made == Makedirs(st.fs, Dirname(file_path))
             c == Copy2(made.fs, SrcNode(s, file_path), file_path, file_path)
         IN IF MakedirsError(made.err) # ""
              THEN [st EXCEPT !.err = MakedirsError(made.err), !.fs = made.fs]
            ELSE IF c.err # "" THEN [st EXCEPT !.err = c.err, !.fs = made.fs]
            ELSE Completed([st EXCEPT !.fs = c.fs], Tail(rest), s)

\* Lines 237-278: the destination tree d after the call, and its error.
Synced(s, d, sfiles, sdirs, kdirs, kfiles) ==
    LET w == Walked([err |-> "", fs |-> d, files |-> sfiles, dirs |-> <<>>],
                    <<Root>>, s, sdirs, kdirs, kfiles)
    IN Completed(w, SeqOf(DOMAIN w.files), s)

(***************************************************************************)
(* The state machine                                                       *)
(***************************************************************************)
\* The mod directory of InitCommand (src/mcpackage/init.py): [kind, entries].
ModNames == {"library_dir", "source_dir", "config_file", "other"}
Scaffolding == {"library_dir", "source_dir", "namespace_dir", "config_file", "mod_files"}
NoEntries == [n \in ModNames |-> "none"]
NoMod == [kind |-> "none", entries |-> NoEntries]
ModDirs ==
    {NoMod, [kind |-> "file", entries |-> NoEntries]}
        \cup {[kind |-> "dir", entries |-> e] : e \in [ModNames -> {"none", "file", "dir"}]}

\* BuildCommand is not run.
NoTree == [p \in AllPaths |-> NoNode]
NoJython == [jython_exe |-> "null", java_exe |-> "null", jython_jar |-> "null"]
BuildCommandIdle ==
    /\ build_pc = "idle" /\ build_result = "" /\ events = <<>>
    /\ mcp_src_fs = NoTree /\ source_fs = NoTree
    /\ build_fs = NoTree /\ build_fs0 = NoTree /\ build_fs1 = NoTree
    /\ java_source_files = {} /\ python_source_files = {}
    /\ jython = NoJython

\* merge_config is not called.
MergeConfigIdle ==
    /\ heap = <<>> /\ base = 0 /\ update = 0 /\ merge = 0 /\ merge_pc = "idle"

\* The command is not run.
InitCommandIdle ==
    /\ mod_dir = NoMod /\ force = FALSE /\ init_pc = "idle" /\ result = ""
    /\ log = <<>> /\ created = {} /\ mod_dir0 = NoMod

Locals0 ==
    /\ keep_dirs = {} /\ keep_files = {} /\ src_dirs = {} /\ src_files = <<>>
    /\ todo = <<>> /\ parent = Root /\ dirs = {} /\ dirsTodo = {} /\ filesTodo = {}
    /\ remaining = {} /\ ops = <<>> /\ selected = <<>> /\ err = "" /\ raisedBy = ""
    /\ pending = <<>> /\ loop_file = <<>> /\ loop_dir = <<>>
    /\ src_todo = <<>> /\ visited = {}

Init ==
    /\ srcfs \in SrcTrees
    /\ destfs \in DestTrees
    /\ files \in FilesArgs(srcfs)
    /\ keep \in KeepArgs
    \* Only the walk of lines 202-233 reads the working directory.
    /\ cwd \in IF files.given THEN {"src"} ELSE {"src", "other"}
    /\ pc = "start"
    /\ Locals0
    /\ calls = 1 /\ results = <<>> /\ dest0 = destfs /\ destFirst = destfs
    /\ faults = 0 /\ external = 0
    /\ InitCommandIdle
    /\ BuildCommandIdle
    /\ MergeConfigIdle

Fail(e, by) ==
    /\ pc' = "failed"
    /\ err' = e
    /\ raisedBy' = by

status == <<pc, err, raisedBy>>

\* Lines 169-198: the keep sets, then the source sets of an explicit list.
DiscoverFiles ==
    /\ pc = "start"
    /\ files.given
    /\ keep_dirs' = KeepDirs(keep)
    /\ keep_files' = KeepFiles(keep)
    /\ IF MissingFiles(srcfs, files) # {}
         THEN /\ \E file_path \in MissingFiles(srcfs, files) :
                    Fail(LookupError(srcfs, file_path), "getmtime")
              /\ UNCHANGED <<src_dirs, src_files, selected, todo>>
         ELSE /\ src_dirs' = FilesDirs(files)
              /\ src_files' = FilesTimes(srcfs, files)
              /\ selected' = src_files'
              /\ todo' = <<Root>>
              /\ pc' = "walk"
              /\ UNCHANGED <<err, raisedBy>>
    /\ UNCHANGED <<args, initcmd, buildcmd, mergecmd, discovery, destfs, parent, dirs, dirsTodo, filesTodo, remaining, ops,
                   ghosts, faults, external>>

\* Lines 169-183 and 200-233: the keep sets, then the walk of src_dir.
DiscoverWalk ==
    /\ pc = "start"
    /\ ~files.given
    /\ keep_dirs' = KeepDirs(keep)
    /\ keep_files' = KeepFiles(keep)
    /\ LET found == Discovered(srcfs, cwd)
       IN IF found.err # ""
            THEN /\ Fail(found.err, IF found.err = "cycle" THEN "sync_files" ELSE "getmtime")
                 /\ UNCHANGED <<src_dirs, src_files, selected, todo>>
            ELSE /\ src_dirs' = found.dirs
                 /\ src_files' = WalkTimes(srcfs, cwd)
                 /\ selected' = src_files'
                 /\ todo' = <<Root>>
                 /\ pc' = "walk"
                 /\ UNCHANGED <<err, raisedBy>>
    /\ UNCHANGED <<args, initcmd, buildcmd, mergecmd, discovery, destfs, parent, dirs, dirsTodo, filesTodo, remaining, ops,
                   ghosts, faults, external>>

\* Line 237: os.walk(dest_dir) goes on to the next directory: the entries
\* left in dirs first.  A directory it cannot list yields nothing.
WalkDest ==
    /\ pc = "walk"
    /\ dirsTodo = {} /\ filesTodo = {}
    /\ LET stack == SeqOf(dirs) \o todo
       IN /\ stack # <<>>
          /\ todo' = Tail(stack)
          /\ IF destfs[Head(stack)].kind = "dir"
               THEN /\ parent' = Head(stack)
                    /\ dirs' = DestDirs(destfs, Head(stack))
                    /\ dirsTodo' = DestDirs(destfs, Head(stack))
                    /\ filesTodo' = DestFiles(destfs, Head(stack))
               ELSE /\ dirs' = {}
                    /\ UNCHANGED <<parent, dirsTodo, filesTodo>>
    /\ UNCHANGED <<args, initcmd, buildcmd, mergecmd, discovery, destfs, status, keep_dirs, keep_files, src_dirs, src_files,
                   remaining, ops, selected, ghosts, faults, external>>

\* Line 237 -> 266: the walk is over; the loop over what is left begins.
WalkDestEnd ==
    /\ pc = "walk"
    /\ dirsTodo = {} /\ filesTodo = {}
    /\ SeqOf(dirs) \o todo = <<>>
    /\ pc' = "complete"
    /\ remaining' = DOMAIN src_files
    /\ UNCHANGED <<args, initcmd, buildcmd, mergecmd, discovery, destfs, err, raisedBy, keep_dirs, keep_files, src_dirs,
                   src_files, walkvars, ops, selected, ghosts, faults, external>>

\* Lines 242-248: one entry of dirs.
CheckDir ==
    /\ pc = "walk"
    /\ \E dir_path \in dirsTodo :
        /\ dirsTodo' = dirsTodo \ {dir_path}
        /\ IF UnneededDir(dir_path, src_dirs, keep_dirs)
             THEN LET r == Rmtree(destfs, dir_path)
                  IN IF r.err = ""
                       THEN /\ destfs' = r.fs
                            /\ dirs' = Pruned(dirs, dir_path)
                            /\ ops' = Append(ops, Op("rmtree", dir_path, dir_path))
                            /\ UNCHANGED status
                       ELSE /\ Fail(r.err, "rmtree")
                            /\ UNCHANGED <<destfs, dirs, ops>>
             ELSE UNCHANGED <<destfs, dirs, ops, status>>
    /\ UNCHANGED <<args, initcmd, buildcmd, mergecmd, discovery, keep_dirs, keep_files, src_dirs, src_files, todo, parent,
                   filesTodo, remaining, selected, ghosts, faults, external>>

\* Lines 251-263: one entry of files.
CheckFile ==
    /\ pc = "walk"
    /\ dirsTodo = {}
    /\ \E file_path \in filesTodo :
        /\ filesTodo' = filesTodo \ {file_path}
        /\ IF Decision(file_path, src_files, keep_files) = "sync"
             THEN IF ~Exists(destfs, file_path)
                    THEN /\ Fail("ENOENT", "getmtime")
                         /\ UNCHANGED <<destfs, src_files, ops>>
                  ELSE IF Stale(destfs[file_path].mtime, src_files[file_path])
                    THEN LET c == Copy2(destfs, SrcNode(srcfs, file_path), file_path, file_path)
                         IN IF c.err # ""
                              THEN /\ Fail(c.err, "copy2")
                                   /\ UNCHANGED <<destfs, src_files, ops>>
                              ELSE /\ destfs' = c.fs
                                   /\ ops' = Append(ops, Op("copy", file_path,
                                                Copy2Target(destfs, file_path, file_path)))
                                   /\ src_files' = Without(src_files, file_path)
                                   /\ UNCHANGED status
                  ELSE /\ src_files' = Without(src_files, file_path)
                       /\ UNCHANGED <<destfs, ops, status>>
           ELSE IF Decision(file_path, src_files, keep_files) = "remove"
             THEN LET r == Remove(destfs, file_path)
                  IN IF r.err = ""
                       THEN /\ destfs' = r.fs
                            /\ ops' = Append(ops, Op("remove", file_path, file_path))
                            /\ UNCHANGED <<src_files, status>>
                       ELSE /\ Fail(r.err, "remove")
                            /\ UNCHANGED <<destfs, src_files, ops>>
           ELSE UNCHANGED <<destfs, src_files, ops, status>>
    /\ UNCHANGED <<args, initcmd, buildcmd, mergecmd, discovery, keep_dirs, keep_files, src_dirs, todo, parent, dirs, dirsTodo,
                   remaining, selected, ghosts, faults, external>>

CopyRemainingInWalk ==
    /\ \/ pc = "complete"
       \/ pc = "walk" /\ dirsTodo = {} /\ filesTodo = {}
    /\ \E file_path \in IF pc = "complete" THEN remaining ELSE DOMAIN src_files :
        /\ remaining' = remaining \ {file_path}
        /\ src_files' = IF pc = "walk" THEN Without(src_files, file_path) ELSE src_files
        /\ LET made == Makedirs(destfs, Dirname(file_path))
               c == Copy2(made.fs, SrcNode(srcfs, file_path), file_path, file_path)
           IN IF MakedirsError(made.err) # "" \/ c.err # ""
                THEN /\ Fail(IF MakedirsError(made.err) # "" THEN made.err ELSE c.err, "copy2")
                     /\ destfs' = made.fs
                     /\ UNCHANGED ops
                ELSE /\ destfs' = c.fs
                     /\ ops' = Append(ops, Op("copy", file_path,
                                              Copy2Target(made.fs, file_path, file_path)))
                     /\ UNCHANGED status
    /\ UNCHANGED <<args, initcmd, buildcmd, mergecmd, discovery, keep_dirs, keep_files, src_dirs, walkvars,
                   selected, ghosts, faults, external>>

\* The completion phase with a move in place of the copy: the source file
\* is gone afterwards.
CopyRemainingMove ==
    /\ pc = "complete"
    /\ \E file_path \in remaining :
        /\ remaining' = remaining \ {file_path}
        /\ LET made == Makedirs(destfs, Dirname(file_path))
               c == Copy2(made.fs, SrcNode(srcfs, file_path), file_path, file_path)
           IN IF MakedirsError(made.err) # ""
                THEN /\ Fail(MakedirsError(made.err), "makedirs")
                     /\ destfs' = made.fs
                     /\ UNCHANGED <<ops, srcfs>>
              ELSE IF c.err # ""
                THEN /\ Fail(c.err, "copy2")
                     /\ destfs' = made.fs
                     /\ UNCHANGED <<ops, srcfs>>
              ELSE /\ destfs' = c.fs
                   /\ srcfs' = [srcfs EXCEPT ![file_path] = NoNode]
                   /\ ops' = Append(ops, Op("copy", file_path,
                                            Copy2Target(made.fs, file_path, file_path)))
                   /\ UNCHANGED status
    /\ UNCHANGED <<files, keep, cwd, initcmd, buildcmd, mergecmd, discovery, keep_dirs, keep_files, src_dirs,
                   src_files, walkvars, selected, ghosts, faults, external>>

\* Lines 266-278: one of the files which were not handled.
CopyRemaining ==
    /\ pc = "complete"
    /\ \E file_path \in remaining :
        /\ remaining' = remaining \ {file_path}
        /\ LET made == Makedirs(destfs, Dirname(file_path))
               c == Copy2(made.fs, SrcNode(srcfs, file_path), file_path, file_path)
           IN IF MakedirsError(made.err) # ""
                THEN /\ Fail(MakedirsError(made.err), "makedirs")
                     /\ destfs' = made.fs
                     /\ UNCHANGED ops
              ELSE IF c.err # ""
                THEN /\ Fail(c.err, "copy2")
                     /\ destfs' = made.fs
                     /\ UNCHANGED ops
              ELSE /\ destfs' = c.fs
                   /\ ops' = Append(ops, Op("copy", file_path,
                                            Copy2Target(made.fs, file_path, file_path)))
                   /\ UNCHANGED status
    /\ UNCHANGED <<args, initcmd, buildcmd, mergecmd, discovery, keep_dirs, keep_files, src_dirs, src_files, walkvars,
                   selected, ghosts, faults, external>>

\* Line 278 -> return.
Return ==
    /\ pc = "complete"
    /\ remaining = {}
    /\ pc' = "done"
    /\ UNCHANGED <<args, initcmd, buildcmd, mergecmd, discovery, destfs, err, raisedBy, keep_dirs, keep_files, src_dirs,
                   src_files, walkvars, remaining, ops, selected, ghosts, faults,
                   external>>

\* The caller calls sync_files again with the same arguments.
Rerun ==
    /\ pc \in {"done", "failed"}
    /\ calls < MaxCalls
    /\ pc' = "start"
    /\ err' = "" /\ raisedBy' = ""
    /\ keep_dirs' = {} /\ keep_files' = {} /\ src_dirs' = {} /\ src_files' = <<>>
    /\ todo' = <<>> /\ parent' = Root /\ dirs' = {} /\ dirsTodo' = {} /\ filesTodo' = {}
    /\ remaining' = {} /\ ops' = <<>> /\ selected' = <<>>
    /\ calls' = calls + 1
    /\ results' = Append(results, [pc |-> pc, err |-> err])
    /\ dest0' = destfs
    /\ UNCHANGED <<args, initcmd, buildcmd, mergecmd, discovery, destfs, destFirst, faults, external>>

Next ==
    \/ DiscoverFiles
    \/ DiscoverWalk
    \/ WalkDest
    \/ WalkDestEnd
    \/ CheckDir
    \/ CheckFile
    \/ CopyRemaining
    \/ Return
    \/ Rerun

Spec == Init /\ [][Next]_vars

(***************************************************************************)
(* Another actor, and I/O failures                                         *)
(***************************************************************************)
\* Another process removes a destination entry the walk has listed and not
\* yet reached.
ExternalRemove ==
    /\ pc = "walk"
    /\ external < MaxExternal
    /\ \E p \in dirsTodo \cup filesTodo :
        /\ Exists(destfs, p)
        /\ destfs' = RemoveTree(destfs, p)
    /\ external' = external + 1
    /\ UNCHANGED <<args, initcmd, buildcmd, mergecmd, discovery, status, keep_dirs, keep_files, src_dirs, src_files, walkvars,
                   remaining, ops, selected, ghosts, faults>>

NextExt == Next \/ ExternalRemove

SpecExt == Init /\ [][NextExt]_vars

\* A file system call of the reconciliation or completion phase raises
\* before it has changed anything (permission denied, say).
Interrupt ==
    /\ faults < MaxFaults
    /\ \/ pc = "walk" /\ dirsTodo \cup filesTodo # {}
       \/ pc = "complete" /\ remaining # {}
    /\ Fail("EIO", "os")
    /\ faults' = faults + 1
    /\ UNCHANGED <<args, initcmd, buildcmd, mergecmd, discovery, destfs, keep_dirs, keep_files, src_dirs, src_files, walkvars,
                   remaining, ops, selected, ghosts, external>>

\* shutil.copy2 of line 258 fails in the middle (disk full, say): copyfile
\* has truncated and partly written the destination, copystat has not run.
OverwriteInterrupted ==
    /\ faults < MaxFaults
    /\ pc = "walk"
    /\ dirsTodo = {}
    /\ \E file_path \in filesTodo :
        /\ file_path \in DOMAIN src_files
        /\ Exists(destfs, file_path)
        /\ Stale(destfs[file_path].mtime, src_files[file_path])
        /\ Copy2(destfs, SrcNode(srcfs, file_path), file_path, file_path).err = ""
        /\ destfs' = [destfs EXCEPT ![Copy2Target(destfs, file_path, file_path)] = PartialFile]
        /\ filesTodo' = filesTodo \ {file_path}
    /\ Fail("EIO", "copy2")
    /\ faults' = faults + 1
    /\ UNCHANGED <<args, initcmd, buildcmd, mergecmd, discovery, keep_dirs, keep_files, src_dirs, src_files, todo, parent, dirs,
                   dirsTodo, remaining, ops, selected, ghosts, external>>

\* The same in shutil.copy2 of line 278.
CopyInterrupted ==
    /\ faults < MaxFaults
    /\ pc = "complete"
    /\ \E file_path \in remaining :
        LET made == Makedirs(destfs, Dirname(file_path))
        IN /\ MakedirsError(made.err) = ""
           /\ Copy2(made.fs, SrcNode(srcfs, file_path), file_path, file_path).err = ""
           /\ destfs' = [made.fs EXCEPT
                           ![Copy2Target(made.fs, file_path, file_path)] = PartialFile]
           /\ remaining' = remaining \ {file_path}
    /\ Fail("EIO", "copy2")
    /\ faults' = faults + 1
    /\ UNCHANGED <<args, initcmd, buildcmd, mergecmd, discovery, keep_dirs, keep_files, src_dirs, src_files, walkvars, ops,
                   selected, ghosts, external>>

NextFault == Next \/ Interrupt \/ OverwriteInterrupted \/ CopyInterrupted

SpecFault == Init /\ [][NextFault]_vars

(***************************************************************************)
(* The discovery one loop turn at a time (lines 172-233), for the          *)
(* properties of the loops themselves; the reconciliation and completion   *)
(* phases are the actions above.                                           *)
(***************************************************************************)
Unlisted(a) == IF a.given THEN SeqOf(a.paths) ELSE <<>>

ChainNeverEnds(d) == FALSE

\* Lines 178 and 192: 'while dir_path' ends when dir_path is empty.
ChainEnds(d) == d = <<>>

\* What the discovery never changes.
untouched == <<args, initcmd, buildcmd, mergecmd, destfs, parent, dirs, dirsTodo, filesTodo, remaining,
               ops, ghosts, faults, external>>

\* Lines 169-175: the loop over keep begins.
BeginKeep ==
    /\ pc = "start"
    /\ pc' = "keep"
    /\ pending' = Unlisted(keep)
    /\ UNCHANGED <<untouched, err, raisedBy, keep_dirs, keep_files, src_dirs, src_files,
                   todo, selected, loop_file, loop_dir, src_todo, visited>>

\* Lines 175-177: the next entry of keep.
KeepNext ==
    /\ pc = "keep" /\ loop_file = <<>> /\ pending # <<>>
    /\ loop_file' = Head(pending)
    /\ loop_dir' = Dirname(Head(pending))
    /\ pending' = Tail(pending)
    /\ UNCHANGED <<untouched, status, keep_dirs, keep_files, src_dirs, src_files, todo,
                   selected, src_todo, visited>>

\* Lines 178-180: one turn of the while loop.
KeepParent ==
    /\ pc = "keep" /\ loop_file # <<>> /\ ~ChainEnds(loop_dir)
    /\ keep_dirs' = keep_dirs \cup {loop_dir}
    /\ loop_dir' = Dirname(loop_dir)
    /\ UNCHANGED <<untouched, status, keep_files, src_dirs, src_files, todo, selected,
                   pending, loop_file, src_todo, visited>>

\* Line 183.
KeepFile ==
    /\ pc = "keep" /\ loop_file # <<>> /\ ChainEnds(loop_dir)
    /\ keep_files' = keep_files \cup {loop_file}
    /\ loop_file' = <<>>
    /\ UNCHANGED <<untouched, status, keep_dirs, src_dirs, src_files, todo, selected,
                   pending, loop_dir, src_todo, visited>>

\* Lines 185-190 and 200-203: the loop over keep is over; the loop over
\* files or the walk of src_dir begins.
KeepEnd ==
    /\ pc = "keep" /\ loop_file = <<>> /\ pending = <<>>
    /\ IF files.given
         THEN /\ pc' = "files"
              /\ pending' = Unlisted(files)
              /\ UNCHANGED src_todo
         ELSE /\ pc' = "srcwalk"
              /\ src_todo' = <<Root>>
              /\ UNCHANGED pending
    /\ UNCHANGED <<untouched, err, raisedBy, keep_dirs, keep_files, src_dirs, src_files,
                   todo, selected, loop_file, loop_dir, visited>>

\* Lines 190-192: the next entry of files.
FilesNext ==
    /\ pc = "files" /\ loop_file = <<>> /\ pending # <<>>
    /\ loop_file' = Head(pending)
    /\ loop_dir' = Dirname(Head(pending))
    /\ pending' = Tail(pending)
    /\ UNCHANGED <<untouched, status, keep_dirs, keep_files, src_dirs, src_files, todo,
                   selected, src_todo, visited>>

\* Lines 193-195: one turn of the while loop.
FilesParent ==
    /\ pc = "files" /\ loop_file # <<>> /\ ~ChainEnds(loop_dir)
    /\ src_dirs' = src_dirs \cup {loop_dir}
    /\ loop_dir' = Dirname(loop_dir)
    /\ UNCHANGED <<untouched, status, keep_dirs, keep_files, src_files, todo, selected,
                   pending, loop_file, src_todo, visited>>

\* A single pass that copies each listed file as soon as it is found.
FilesTimeEager ==
    /\ pc = "files" /\ loop_file # <<>> /\ ChainEnds(loop_dir)
    /\ IF ~Exists(srcfs, loop_file)
         THEN /\ Fail(LookupError(srcfs, loop_file), "getmtime")
              /\ UNCHANGED <<src_files, loop_file, destfs, ops>>
         ELSE LET c == Copy2(destfs, SrcNode(srcfs, loop_file), loop_file, loop_file)
              IN /\ src_files' = src_files @@ (loop_file :> srcfs[loop_file].mtime)
                 /\ loop_file' = <<>>
                 /\ destfs' = IF c.err = "" THEN c.fs ELSE destfs
                 /\ ops' = IF c.err = "" THEN Append(ops, Op("copy", loop_file, loop_file))
                           ELSE ops
                 /\ UNCHANGED status
    /\ UNCHANGED <<args, initcmd, buildcmd, mergecmd, parent, dirs, dirsTodo, filesTodo, remaining, ghosts,
                   faults, external, keep_dirs, keep_files, src_dirs, todo, selected,
                   pending, loop_dir, src_todo, visited>>

\* Line 198: the source file's modified time.
FilesTime ==
    /\ pc = "files" /\ loop_file # <<>> /\ ChainEnds(loop_dir)
    /\ IF ~Exists(srcfs, loop_file)
         THEN /\ Fail(LookupError(srcfs, loop_file), "getmtime")
              /\ UNCHANGED <<src_files, loop_file>>
         ELSE /\ src_files' = src_files @@ (loop_file :> srcfs[loop_file].mtime)
              /\ loop_file' = <<>>
              /\ UNCHANGED status
    /\ UNCHANGED <<untouched, keep_dirs, keep_files, src_dirs, todo, selected, pending,
                   loop_dir, src_todo, visited>>

\* Lines 203-233: the next directory of os.walk(src_dir, followlinks=True).
SrcWalk ==
    /\ pc = "srcwalk" /\ src_todo # <<>>
    /\ LET par == Head(src_todo)
           real == Realpath(srcfs, cwd, par)
           ds == WalkDirs(srcfs, par)
           fs == WalkFiles(srcfs, par)
       IN IF real \in visited
            THEN /\ Fail("cycle", "sync_files")
                 /\ UNCHANGED <<src_dirs, src_files, src_todo, visited>>
          ELSE IF \E f \in fs : TooManyLinks(srcfs, f)
            THEN /\ Fail("ELOOP", "getmtime")
                 /\ src_dirs' = src_dirs \cup ds
                 /\ visited' = visited \cup {real}
                 /\ UNCHANGED <<src_files, src_todo>>
          ELSE /\ src_todo' = SeqOf(ds) \o Tail(src_todo)
               /\ visited' = visited \cup {real}
               /\ src_dirs' = src_dirs \cup ds
               /\ src_files' = src_files @@ [f \in fs |-> srcfs[Resolve(srcfs, f)].mtime]
               /\ UNCHANGED status
    /\ UNCHANGED <<untouched, keep_dirs, keep_files, todo, selected, pending, loop_file,
                   loop_dir>>

\* Line 237: the discovery is over; os.walk(dest_dir) begins.
DiscoveryEnd ==
    /\ \/ pc = "files" /\ loop_file = <<>> /\ pending = <<>>
       \/ pc = "srcwalk" /\ src_todo = <<>>
    /\ selected' = src_files
    /\ todo' = <<Root>>
    /\ pc' = "walk"
    /\ UNCHANGED <<untouched, err, raisedBy, keep_dirs, keep_files, src_dirs, src_files,
                   pending, loop_file, loop_dir, src_todo, visited>>

NextSteps ==
    \/ BeginKeep
    \/ KeepNext
    \/ KeepParent
    \/ KeepFile
    \/ KeepEnd
    \/ FilesNext
    \/ FilesParent
    \/ FilesTime
    \/ SrcWalk
    \/ DiscoveryEnd
    \/ WalkDest
    \/ WalkDestEnd
    \/ CheckDir
    \/ CheckFile
    \/ CopyRemaining
    \/ Return

\* One call; no loop depends on how old a destination file is, so the
\* destination files are all taken older than the source files.
InitSteps ==
    /\ Init
    /\ \A p \in RelPaths : destfs[p].kind = "file" => destfs[p].mtime = 1

\* A call runs on: whatever step it can take next, it takes.
SpecSteps == InitSteps /\ [][NextSteps]_vars /\ WF_vars(NextSteps)

(***************************************************************************)
(* InitCommand.run_work (src/mcpackage/init.py, lines 249-444)             *)
(*                                                                         *)
(* The mod directory is [kind, entries]: absent, a file, or a directory    *)
(* whose entries (the library directory, the source directory, the         *)
(* configuration file, and one entry of no concern to the command) are     *)
(* absent, files or directories.                                           *)
(***************************************************************************)
\* Lines 263-266: os.walk(self.mod_dir) yields its first triple, the one of
\* mod_dir itself, whenever mod_dir is a directory it can list; it yields
\* nothing when mod_dir is not a directory.
WalkYields(m) == m.kind = "dir"

\* run_work ends in an exception.
InitRaise ==
    /\ init_pc' = "raised"
    /\ result' = "raise"

\* Lines 255-261: os.makedirs(self.mod_dir), EEXIST swallowed.
MakeModDir ==
    /\ init_pc = "start"
    /\ log' = Append(log, "Create mod directory")
    /\ mod_dir' = IF mod_dir.kind = "none" THEN [kind |-> "dir", entries |-> NoEntries]
                  ELSE mod_dir
    /\ init_pc' = "guard"
    /\ UNCHANGED <<syncvars, buildcmd, mergecmd, force, result, created, mod_dir0>>

\* Lines 263-268: without force, the first triple of the walk ends the
\* command with an error.
CheckEmpty ==
    /\ init_pc = "guard"
    /\ IF ~force /\ WalkYields(mod_dir)
         THEN /\ log' = Append(log, "Mod directory is not empty")
              /\ result' = "return 1"
              /\ init_pc' = "returned"
         ELSE /\ init_pc' = "library"
              /\ UNCHANGED <<log, result>>
    /\ UNCHANGED <<syncvars, buildcmd, mergecmd, mod_dir, force, created, mod_dir0>>

\* Lines 275-283: os.makedirs(library_dir), EEXIST swallowed.
MakeLibraryDir ==
    /\ init_pc = "library"
    /\ IF mod_dir.kind # "dir"
         THEN InitRaise /\ UNCHANGED <<mod_dir, created, log>>
         ELSE /\ log' = Append(log, "Create library directory")
              /\ IF mod_dir.entries["library_dir"] = "none"
                   THEN /\ mod_dir' = [mod_dir EXCEPT !.entries["library_dir"] = "dir"]
                        /\ created' = created \cup {"library_dir"}
                   ELSE UNCHANGED <<mod_dir, created>>
              /\ init_pc' = "source"
              /\ UNCHANGED result
    /\ UNCHANGED <<syncvars, buildcmd, mergecmd, force, mod_dir0>>

\* Lines 285-292: os.makedirs(source_dir), EEXIST swallowed.
MakeSourceDir ==
    /\ init_pc = "source"
    /\ log' = Append(log, "Create source directory")
    /\ IF mod_dir.entries["source_dir"] = "none"
         THEN /\ mod_dir' = [mod_dir EXCEPT !.entries["source_dir"] = "dir"]
              /\ created' = created \cup {"source_dir"}
         ELSE UNCHANGED <<mod_dir, created>>
    /\ init_pc' = "namespace"
    /\ UNCHANGED <<syncvars, buildcmd, mergecmd, force, result, mod_dir0>>

\* Lines 294-301: os.makedirs(namespace_dir) under the source directory.
MakeNamespaceDir ==
    /\ init_pc = "namespace"
    /\ IF mod_dir.entries["source_dir"] # "dir"
         THEN InitRaise /\ UNCHANGED <<created, log>>
         ELSE /\ log' = Append(log, "Create namespace directory")
              /\ created' = created \cup {"namespace_dir"}
              /\ init_pc' = "config"
              /\ UNCHANGED result
    /\ UNCHANGED <<syncvars, buildcmd, mergecmd, mod_dir, force, mod_dir0>>

\* Lines 303-331: the configuration file is generated and written.
WriteConfig ==
    /\ init_pc = "config"
    /\ IF mod_dir.entries["config_file"] = "dir"
         THEN InitRaise /\ UNCHANGED <<mod_dir, created, log>>
         ELSE /\ log' = Append(log, "Create config file")
              /\ mod_dir' = [mod_dir EXCEPT !.entries["config_file"] = "file"]
              /\ created' = created \cup {"config_file"}
              /\ init_pc' = "mod"
              /\ UNCHANGED result
    /\ UNCHANGED <<syncvars, buildcmd, mergecmd, force, mod_dir0>>

\* Lines 333-441: mcmod.info and the mod's source files are written under
\* the source directory.
WriteModFiles ==
    /\ init_pc = "mod"
    /\ log' = Append(log, "Create mod files")
    /\ created' = created \cup {"mod_files"}
    /\ init_pc' = "written"
    /\ UNCHANGED <<syncvars, buildcmd, mergecmd, mod_dir, force, result, mod_dir0>>

\* Lines 443-444.
ReturnDone ==
    /\ init_pc = "written"
    /\ log' = Append(log, "Done")
    /\ result' = "return 0"
    /\ init_pc' = "returned"
    /\ UNCHANGED <<syncvars, buildcmd, mergecmd, mod_dir, force, created, mod_dir0>>

\* sync_files is not called.
SyncIdle ==
    /\ srcfs = [p \in AllPaths |-> NoNode] /\ destfs = [p \in AllPaths |-> NoNode]
    /\ files = NoArg /\ keep = NoArg /\ cwd = "src"
    /\ pc = "idle"
    /\ Locals0
    /\ calls = 0 /\ results = <<>> /\ dest0 = destfs /\ destFirst = destfs
    /\ faults = 0 /\ external = 0

InitCommandInit ==
    /\ SyncIdle
    /\ BuildCommandIdle
    /\ MergeConfigIdle
    /\ mod_dir \in ModDirs
    /\ force \in BOOLEAN
    /\ init_pc = "start"
    /\ result = ""
    /\ log = <<>>
    /\ created = {}
    /\ mod_dir0 = mod_dir

NextInitCommand ==
    \/ MakeModDir
    \/ CheckEmpty
    \/ MakeLibraryDir
    \/ MakeSourceDir
    \/ MakeNamespaceDir
    \/ WriteConfig
    \/ WriteModFiles
    \/ ReturnDone

SpecInitCommand == InitCommandInit /\ [][NextInitCommand]_vars

(***************************************************************************)
(* Properties                                                              *)
(***************************************************************************)
SourceFileSet == DOMAIN selected
Deletes == {i \in DOMAIN ops : ops[i].op \in {"remove", "rmtree"}}
Copies == {i \in DOMAIN ops : ops[i].op = "copy"}
CopiedFrom(p) == \E i \in Copies : ops[i].path = p
Touched(p) ==
    \/ \E i \in Copies : ops[i].target = p
    \/ \E i \in Deletes : IsPrefix(ops[i].path, p)
Current(t, p) == t[p].kind = "file" /\ t[p].mtime >= selected[p]
SecondCallAfter(outcome) ==
    /\ calls >= 2
    /\ results[calls - 1].pc = outcome
    /\ pc = "done"

\* C1 (as claimed): after a successful call every Source File Set path that
\* is not in the keep list is a destination file with the source's content,
\* whatever the destination held before.
C1_Completeness ==
    pc = "done" =>
        \A p \in SourceFileSet \ keep.paths :
            destfs[p].kind = "file" /\ destfs[p].data = SrcNode(srcfs, p).data

\* C1 (amended): after a successful call, a Source File Set path p outside
\* the keep list that was a destination file at least as new as the source
\* is exactly as it was (its content may differ from the source's); where
\* dest/p was a directory the keep list's ancestors retain, it is still a
\* directory and holds the copy under p's base name; in every other case
\* dest/p is a file with the source's content and modification time.
C1_CompletenessUnlessCurrent ==
    pc = "done" =>
        \A p \in SourceFileSet \ keep.paths :
            IF Current(dest0, p) THEN destfs[p] = dest0[p]
            ELSE IF dest0[p].kind = "dir" /\ p \in keep_dirs
              THEN /\ destfs[p].kind = "dir"
                   /\ destfs[Join(p, Basename(p))] = SrcNode(srcfs, p)
            ELSE destfs[p] = SrcNode(srcfs, p)

C1_Witness ==
    /\ pc = "done"
    /\ \E p, q \in SourceFileSet \ keep.paths :
        /\ Current(dest0, p)
        /\ destfs[p].data # SrcNode(srcfs, p).data
        /\ ~Current(dest0, q)
        /\ destfs[q] = SrcNode(srcfs, q)

\* C2 (as claimed): after a successful call the destination's files are
\* exactly the Source File Set and the keep paths that were destination
\* files before, and every earlier entry in neither the source sets nor the
\* keep sets is gone.
C2_ExactMirror ==
    pc = "done" =>
        /\ Files(destfs) = SourceFileSet
                             \cup {k \in keep.paths : dest0[k].kind = "file"}
        /\ \A p \in RelPaths :
            (/\ Exists(dest0, p)
             /\ p \notin SourceFileSet \cup src_dirs \cup keep_files \cup keep_dirs)
                => ~Exists(destfs, p)

\* C3 (as claimed): a call that follows a successful call with the same
\* arguments copies nothing and deletes nothing.
C3_Idempotence == SecondCallAfter("done") => ops = <<>>

\* C4 (as claimed): a keep path outside the Source File Set that was a
\* destination file before a successful call is the same file after it, and
\* no copy or removal of the call touched it.
C4_Preservation ==
    pc = "done" =>
        \A p \in keep.paths \ SourceFileSet :
            dest0[p].kind = "file" => destfs[p] = dest0[p] /\ ~Touched(p)

\* C5 (as claimed): no removal of a call deletes a keep path that was at the
\* destination, be it a file or a directory, itself or through an ancestor.
C5_KeepNeverDeleted ==
    \A i \in Deletes : \A k \in keep.paths :
        Exists(dest0, k) => ~IsPrefix(ops[i].path, k)

\* C5 (amended): no removal of a call deletes a keep path that was a FILE at
\* the destination, itself or through an ancestor directory, and that file
\* is there at every step of the call.  (A keep path that is a directory at
\* the destination is removed like any other directory unless it is an
\* ancestor of a keep path or of a source file.)
C5_KeepFilesNeverDeleted ==
    \A k \in keep.paths :
        dest0[k].kind = "file" =>
            /\ destfs[k].kind = "file"
            /\ \A i \in Deletes : ~IsPrefix(ops[i].path, k)

C5_Witness ==
    /\ pc = "done"
    /\ Deletes # {}
    /\ \E k \in keep.paths \ SourceFileSet :
        /\ dest0[k].kind = "file"
        /\ destfs[k] = dest0[k]
        /\ \E i \in Deletes : Dirname(ops[i].path) = Dirname(k)

\* C6: once the walk is over, a destination file of the Source File Set has
\* been copied over if and only if it was older than the source's recorded
\* modification time; one that was as new or newer is exactly as it was.
C6_StalenessDrivenCopy ==
    pc \in {"complete", "done"} =>
        \A p \in SourceFileSet :
            dest0[p].kind = "file" =>
                /\ CopiedFrom(p) <=> dest0[p].mtime < selected[p]
                /\ dest0[p].mtime >= selected[p] => destfs[p] = dest0[p]
                /\ dest0[p].mtime < selected[p] => destfs[p] = SrcNode(srcfs, p)

C6_Witness ==
    /\ pc = "done"
    /\ \E p, q \in SourceFileSet :
        /\ dest0[p].kind = "file" /\ dest0[p].mtime = selected[p]
        /\ ~CopiedFrom(p)
        /\ dest0[q].kind = "file" /\ dest0[q].mtime < selected[q]
        /\ CopiedFrom(q)

\* C7 (as claimed): a walk of a source tree that holds a symbolic link to an
\* ancestor directory ends with the cycle exception, in every working
\* directory.
C7_CycleDetected ==
    (/\ ~files.given
     /\ \E p \in RelPaths : srcfs[p].kind = "link"
     /\ pc # "start")
        => pc = "failed" /\ err = "cycle"

Doomed(p) ==
    \/ p \in dirsTodo /\ UnneededDir(p, src_dirs, keep_dirs)
    \/ /\ dirsTodo = {}
       /\ p \in filesTodo
       /\ p \notin DOMAIN src_files
       /\ p \notin keep_files

C9_MissingSourceFatal ==
    (/\ files.given
     /\ \E p \in files.paths : srcfs[p].kind = "none"
     /\ pc # "start")
        => /\ pc = "failed"
           /\ err \in {"ENOENT", "ENOTDIR"}
           /\ raisedBy = "getmtime"
           /\ selected = <<>>

C9_Witness ==
    /\ pc = "failed"
    /\ err = "ENOENT"
    /\ raisedBy = "getmtime"
    /\ \E p, q \in files.paths : srcfs[p].kind = "none" /\ srcfs[q].kind = "file"

\* C10 (as claimed): a successful call that follows a call which failed in
\* its reconciliation or completion phase leaves what an uninterrupted call
\* would have left: a Source File Set path that was not at the destination
\* at first has the source's content.
C10_RecoveryByRerun ==
    SecondCallAfter("failed") =>
        \A p \in SourceFileSet :
            ~Exists(destFirst, p) => destfs[p] = SrcNode(srcfs, p)

\* C11: after a successful call no destination file is stale: for every path
\* p of the Source File Set, dest/p is a file whose modification time is at
\* least the source modification time recorded at discovery.
C11_NoStaleDestination ==
    pc = "done" => \A p \in SourceFileSet : Current(destfs, p)

\* What sync_files(src, dest, files=F, keep) leaves of the destination the
\* current call began with, F being all the files under src.
AllFiles == Arg(Files(srcfs))
WithAllFiles ==
    Synced(srcfs, dest0, FilesTimes(srcfs, AllFiles), FilesDirs(AllFiles),
           KeepDirs(keep), KeepFiles(keep))
NoLinks == \A p \in RelPaths : srcfs[p].kind # "link"
WalkedAll == pc = "done" /\ ~files.given /\ NoLinks

\* C13 (as claimed): a successful call without a files list, on a source
\* tree without links, ends with the destination tree that the call with
\* the list of all files under src ends with.
C13_OmittedFilesMeansAllFiles ==
    WalkedAll => WithAllFiles.err = "" /\ destfs = WithAllFiles.fs

\* C13 (amended): the two calls end with the same destination files; the
\* destination directories may differ, and only so: a destination directory
\* whose source counterpart is a directory that holds no files is kept by
\* the call without a files list and removed by the call with the list.
C13_OmittedFilesSameFiles ==
    WalkedAll =>
        /\ WithAllFiles.err = ""
        /\ \A p \in RelPaths :
            destfs[p] # WithAllFiles.fs[p] =>
                /\ destfs[p].kind = "dir"
                /\ WithAllFiles.fs[p].kind = "none"
                /\ srcfs[p].kind = "dir"
                /\ \A q \in Files(srcfs) : ~IsPrefix(p, q)

C13_Witness ==
    /\ WalkedAll
    /\ \E p \in RelPaths : destfs[p].kind = "dir" /\ WithAllFiles.fs[p].kind = "none"
    /\ \E q \in RelPaths : dest0[q].kind = "file" /\ destfs[q].kind = "none"

\* C14: with force false, run_work reports 'Mod directory is not empty' and
\* returns 1 without creating any scaffolding if and only if mod_dir holds
\* at least one entry; on an empty or newly created mod_dir it creates the
\* scaffolding and returns 0.
HadEntries == mod_dir0.kind = "dir" /\ \E n \in ModNames : mod_dir0.entries[n] # "none"
ReportedNotEmpty == \E i \in DOMAIN log : log[i] = "Mod directory is not empty"
C14_InitGuard ==
    (init_pc \in {"returned", "raised"} /\ ~force /\ mod_dir0.kind # "file") =>
        IF HadEntries
          THEN result = "return 1" /\ ReportedNotEmpty /\ created = {}
          ELSE result = "return 0" /\ ~ReportedNotEmpty /\ created = Scaffolding

\* The non-empty proper prefixes of a relative path.
Ancestors(p) == {SubSeq(p, 1, n) : n \in 1..(Len(p) - 1)}
DeepPaths == UNION {[1..n -> {"a", "b"}] : n \in 1..MaxDepth}

\* C15: after discovery, in both branches, every non-empty proper ancestor
\* of every Source File Set entry is in the Source Directory Set, and every
\* non-empty proper ancestor of every keep path is in the Keep Directory
\* Set; the loop of lines 177-180 (191-194) yields exactly the ancestors of
\* a path, however long its chain.
C15_AncestorClosure ==
    /\ pc \in {"walk", "complete", "done"} =>
        /\ \A p \in SourceFileSet : Ancestors(p) \subseteq src_dirs
        /\ \A p \in keep.paths : Ancestors(p) \subseteq keep_dirs
    /\ pc = "start" =>
        \A p \in DeepPaths : ParentDirs(Dirname(p)) = Ancestors(p)

C15_Witness ==
    /\ pc = "walk"
    /\ \E p \in SourceFileSet : Ancestors(p) # {}
    /\ \E p \in keep.paths \ SourceFileSet : Ancestors(p) # {}

\* C16: every copy, the overwrite of the reconciliation phase and the create
\* of the completion phase alike, leaves dest/p a regular file at exactly
\* the relative path p, with the source's content and modification time,
\* every ancestor directory of p being there.
C16_CopyLandsAtPath ==
    \A i \in Copies :
        /\ ops[i].target = ops[i].path
        /\ destfs[ops[i].path] = SrcNode(srcfs, ops[i].path)
        /\ \A d \in Ancestors(ops[i].path) : destfs[d].kind = "dir"

\* C17: each Source File Set path is copied at most once per call; a path
\* the destination walk handled is out of src_files and is not copied again
\* by the completion phase, which copies exactly the paths that were no
\* file at the destination during the walk.
FileAtDest(p) == dest0[p].kind = "file"
C17_CopiedAtMostOnce ==
    /\ \A i, j \in Copies : ops[i].path = ops[j].path => i = j
    /\ pc \in {"complete", "done"} =>
        /\ DOMAIN src_files = {p \in SourceFileSet : ~FileAtDest(p)}
        /\ remaining \subseteq DOMAIN src_files
        /\ \A p \in DOMAIN src_files \ remaining : CopiedFrom(p)
        /\ \A p \in remaining : ~CopiedFrom(p)
    /\ pc = "done" => remaining = {}

C17_Witness ==
    /\ pc = "done"
    /\ \E p, r \in SourceFileSet :
        /\ FileAtDest(p) /\ CopiedFrom(p)
        /\ ~FileAtDest(r) /\ CopiedFrom(r)

\* C18: a directory the destination walk deleted is not descended: it is
\* out of the list os.walk descends from, it is not visited, and no later
\* step reads the modification time of, copies onto or removes a path
\* beneath it.
Beneath(d, p) == IsPrefix(d, p) /\ p # d
Rmtrees == {i \in DOMAIN ops : ops[i].op = "rmtree"}
C18_PrunedNotDescended ==
    \A i \in Rmtrees :
        LET d == ops[i].path
        IN /\ d \notin dirs
           /\ \A k \in DOMAIN todo : ~IsPrefix(d, todo[k])
           /\ (dirsTodo \cup filesTodo # {}) => ~IsPrefix(d, parent)
           /\ \A x \in dirsTodo \cup filesTodo : ~IsPrefix(d, x)
           /\ \A j \in DOMAIN ops :
                j > i => ~Beneath(d, ops[j].path) /\ ~Beneath(d, ops[j].target)

C18_Witness ==
    /\ pc = "done"
    /\ \E i \in Rmtrees :
        /\ \E q \in RelPaths : Beneath(ops[i].path, q) /\ dest0[q].kind = "file"
        /\ \E j \in DOMAIN ops : j > i

\* C19: a sync_files call on finite trees and lists of relative paths
\* eventually returns or raises: the ancestor loops of lines 178-180 and
\* 193-195, the walk of src_dir (links followed) and the rest of the call
\* all come to an end.
C19_Termination == <>(pc \in {"done", "failed"})

C19_Witness ==
    /\ pc = "failed"
    /\ err \in {"cycle", "ELOOP"}
    /\ keep_dirs # {}
    /\ Cardinality(visited) >= 2

\* C20: the three phases run in order.  While a source modified time is
\* still to be looked up the destination is as the call found it, and no
\* time is recorded afterwards; no deletion and no overwrite (the
\* reconciliation walk's operations) comes after a copy that creates a
\* file (the completion phase's operation).
Discovering == pc \in {"start", "keep", "files", "srcwalk"}
Creates(i) == ops[i].op = "copy" /\ ~FileAtDest(ops[i].path)
C20_PhaseOrder ==
    /\ Discovering => ops = <<>> /\ destfs = dest0
    /\ (ops # <<>> \/ destfs # dest0) =>
        \A p \in DOMAIN src_files : p \in SourceFileSet /\ src_files[p] = selected[p]
    /\ \A i, j \in DOMAIN ops : (i < j /\ Creates(i)) => Creates(j)

C20_Witness ==
    /\ pc = "done"
    /\ selected # <<>>
    /\ \E i, j \in DOMAIN ops : i < j /\ ~Creates(i) /\ Creates(j)

\* The discovery (lines 172-233) fails: a listed file is missing, or the
\* walk of the source runs into a link it cannot follow.
DiscoveryFails ==
    IF files.given THEN MissingFiles(srcfs, files) # {}
    ELSE Discovered(srcfs, cwd).err # ""

\* C21: while the discovery runs, and when it has failed (a listed file is
\* missing, or the walk met a symlink cycle), the destination is as the call
\* found it: nothing under it was created, overwritten or deleted.
C21_DiscoveryFailureLeavesDestination ==
    (Discovering \/ (pc = "failed" /\ DiscoveryFails))
        => destfs = dest0 /\ ops = <<>>

\* A listed file is missing after another was found, the call has failed,
\* and the destination holds entries the call would have had to change.
C21_Witness ==
    /\ pc = "failed" /\ DiscoveryFails
    /\ files.given /\ src_files # <<>>
    /\ \E p \in RelPaths : Exists(destfs, p) /\ p \notin files.paths

\* C22: no step of sync_files changes the source tree: every call that
\* writes (shutil.rmtree, os.remove, os.makedirs, shutil.copy2's destination)
\* is given a path under dest_dir, whether the call succeeds or fails.
C22_SourceUnchanged == [][srcfs' = srcfs]_vars

\* A call has failed after it deleted from the destination and copied into it.
C22_Witness ==
    /\ pc = "failed"
    /\ \E i, j \in DOMAIN ops : ops[i].op = "copy" /\ ops[j].op # "copy"

\* The keep list without the paths of the source file set.
KeepOnlyDest == Arg(keep.paths \ SourceFileSet)

\* C23: a path that is both in the source file set and in the keep list is
\* handled as if it were not in the keep list: after a successful call it is
\* overwritten when the destination file was older, created when it was
\* absent, left alone when it was not older, and the whole destination is
\* the one the call gives with those paths taken off the keep list.
C23_KeepAffectsDeletionOnly ==
    (pc = "done" /\ keep.given) =>
        /\ \A p \in SourceFileSet \cap keep.paths :
            /\ (dest0[p].kind = "file" /\ dest0[p].mtime < selected[p])
                   => destfs[p] = SrcNode(srcfs, p)
            /\ (dest0[p].kind = "file" /\ dest0[p].mtime >= selected[p])
                   => destfs[p] = dest0[p]
            /\ ~Exists(dest0, p) => destfs[p] = SrcNode(srcfs, p)
        /\ destfs = Synced(srcfs, dest0, selected, src_dirs,
                           KeepDirs(KeepOnlyDest), KeepFiles(KeepOnlyDest)).fs

\* A successful call whose keep list names two source files: one older at
\* the destination, one absent from it.
C23_Witness ==
    /\ pc = "done" /\ keep.given
    /\ \E p, q \in SourceFileSet \cap keep.paths :
        /\ dest0[p].kind = "file" /\ dest0[p].mtime < selected[p]
        /\ ~Exists(dest0, q)

\* The destination the call found holds a directory at source file p, or a
\* file at a directory above p.
TypeConflictAt(p) ==
    \/ dest0[p].kind = "dir"
    \/ \E d \in Ancestors(p) : dest0[d].kind = "file"

\* C24: after a successful call a type conflict is resolved in favour of
\* the source: where the destination held a directory at a source file's
\* path, or a file at the path of one of its directories, the destination
\* has the source's type there and every source file is at its own path.
C24_TypeConflictsResolved ==
    pc = "done" =>
        \A p \in SourceFileSet : TypeConflictAt(p) =>
            /\ destfs[p].kind = "file"
            /\ \A d \in Ancestors(p) : destfs[d].kind = "dir"
            /\ \A q \in SourceFileSet : destfs[q].kind = "file"

\* The call found no destination root, and the discovery gave source files.
RootMissing == dest0[Root].kind = "none" /\ SourceFileSet # {}

\* C25: when the destination root does not exist and the source file set is
\* not empty the call does not fail: the walk of the destination visits
\* nothing and changes nothing, and the completion phase creates the root
\* with the directories above every source file and copies every source
\* file, so that the destination ends as exactly the source file set.
C25_MissingRootIsCreated ==
    RootMissing =>
        /\ pc # "failed"
        /\ pc = "walk" => /\ dirsTodo = {} /\ filesTodo = {} /\ dirs = {}
                          /\ destfs = dest0 /\ ops = <<>>
        /\ \A i \in DOMAIN ops : ops[i].op = "copy" /\ ops[i].target = ops[i].path
        /\ pc = "done" =>
            /\ destfs[Root].kind = "dir"
            /\ \A p \in SourceFileSet :
                /\ destfs[p] = SrcNode(srcfs, p)
                /\ \A d \in Ancestors(p) : destfs[d].kind = "dir"
            /\ \A p \in RelPaths : destfs[p].kind = "file" => p \in SourceFileSet
            /\ Len(ops) = Cardinality(SourceFileSet)

\* A successful call that found no destination root and copied a file into
\* a subdirectory of it.
C25_Witness ==
    /\ pc = "done" /\ RootMissing
    /\ \E p \in SourceFileSet : Ancestors(p) # {}

(***************************************************************************)
(* BuildCommand (src/mcpackage/build.py): run (lines 258-292) and the      *)
(* pipeline of run_work (lines 294-581).  The two calls of sync_files into *)
(* build/src/minecraft are lines 237-278 applied to the trees; what the    *)
(* other steps leave on disk is not followed, only how they end.           *)
(***************************************************************************)
\* A tree of directories and regular files.
PlainTrees == {t \in SrcTrees : \A p \in RelPaths : t[p].kind # "link"}

\* What a configured path can be: None, a path that is no file, a file.
ExeStates == {"null", "missing", "file"}
JythonConfigs == [jython_exe : ExeStates, java_exe : ExeStates, jython_jar : ExeStates]

\* How a script can end: exit status 0, another exit status, or it could
\* not be executed.
ExitStatuses == {"exit 0", "exit 1", "OSError"}

Event(step, outcome) == [step |-> step, outcome |-> outcome]

\* subprocess.call in place of subprocess.check_call: the exit status is dropped.
Call(code) == IF code = "OSError" THEN "OSError" ELSE ""

\* Lines 416, 434, 500: subprocess.check_call raises CalledProcessError for an
\* exit status other than 0; the OSError of a script that cannot be run is
\* raised again.
CheckCall(code) ==
    IF code = "exit 0" THEN ""
    ELSE IF code = "OSError" THEN "OSError"
    ELSE "CalledProcessError"

\* Line 345: pathspec.iter_tree(mcp_src_dir), every file under the directory.
mcp_src_files == Files(mcp_src_fs)

dest_files_of_mcp == mcp_src_files

\* Lines 395-398: the files of both calls.
dest_files == mcp_src_files \cup java_source_files \cup python_source_files

\* Lines 373-389: python_class_files has one entry per Python source file.
python_class_files == python_source_files

\* sync_files(src, dest, files=f, keep=k) as a whole: the discovery of an
\* explicit list (lines 185-198), then lines 237-278.
SyncFiles(s, d, f, k) ==
    IF MissingFiles(s, Arg(f)) # {}
      THEN [err |-> "ENOENT", fs |-> d]
      ELSE LET r == Synced(s, d, FilesTimes(s, Arg(f)), FilesDirs(Arg(f)),
                           KeepDirs(Arg(k)), KeepFiles(Arg(k)))
           IN [err |-> r.err, fs |-> r.fs]

\* run with no try block around run_work.
RunCatchesInit(step) == step \in {"init_config", "init_logging"}

\* Lines 265-289: each of the three steps of run is in a try block whose
\* 'except:' names no exception class.
RunCatches(step) == step \in {"init_config", "init_logging", "run_work"}

\* Lines 446 and 457: util.find_exe(name); src/mcpackage/util.py defines no
\* find_exe, so the attribute lookup raises.
FindExe(name) == "AttributeError"

\* A step of run raised: the handler's 'return 1' / 'result = 1', or the
\* exception leaves run.
Raises(try, step, outcome) ==
    /\ events' = Append(events, Event(step, outcome))
    /\ build_result' = IF RunCatches(try) THEN "1" ELSE "raise"
    /\ build_pc' = "returned"

\* A step is done and the next one is due.
Goes(step, outcome, next) ==
    /\ events' = Append(events, Event(step, outcome))
    /\ build_pc' = next
    /\ UNCHANGED build_result

buildtrees == <<mcp_src_fs, source_fs, build_fs, build_fs0, build_fs1,
                java_source_files, python_source_files>>

\* Lines 265-272: self.init_config().
InitConfig ==
    /\ build_pc = "init_config"
    /\ \E raised \in BOOLEAN :
        IF raised THEN Raises("init_config", "init_config", "raised")
        ELSE Goes("init_config", "ok", "init_logging")
    /\ UNCHANGED <<syncvars, initcmd, mergecmd, buildtrees, jython>>

\* Lines 275-282: self.init_logging().
InitLogging ==
    /\ build_pc = "init_logging"
    /\ \E raised \in BOOLEAN :
        IF raised THEN Raises("init_logging", "init_logging", "raised")
        ELSE Goes("init_logging", "ok", "prepare")
    /\ UNCHANGED <<syncvars, initcmd, mergecmd, buildtrees, jython>>

\* Lines 300-391: the MCP configuration file, the copies of mcp/bin and
\* mcp/temp, the scans of the source directories.
Prepare ==
    /\ build_pc = "prepare"
    /\ \E raised \in BOOLEAN :
        IF raised THEN Raises("run_work", "prepare", "raised")
        ELSE Goes("prepare", "ok", "sync_mcp")
    /\ UNCHANGED <<syncvars, initcmd, mergecmd, buildtrees, jython>>

\* Line 402: util.sync_files(mcp_src_dir, dest_dir, files=mcp_src_files,
\* keep=dest_files).
SyncMcp ==
    /\ build_pc = "sync_mcp"
    /\ LET r == SyncFiles(mcp_src_fs, build_fs, mcp_src_files, dest_files)
       IN /\ build_fs' = r.fs
          /\ build_fs1' = r.fs
          /\ IF r.err # "" THEN Raises("run_work", "sync_mcp", "raised")
             ELSE Goes("sync_mcp", "ok", "sync_source")
    /\ UNCHANGED <<syncvars, initcmd, mergecmd, mcp_src_fs, source_fs, build_fs0,
                   java_source_files, python_source_files, jython>>

\* Line 406: util.sync_files(source_dir, dest_dir, files=itertools.chain(
\* java_source_files, python_source_files), keep=dest_files).
SyncSource ==
    /\ build_pc = "sync_source"
    /\ LET r == SyncFiles(source_fs, build_fs,
                          java_source_files \cup python_source_files, dest_files)
       IN /\ build_fs' = r.fs
          /\ IF r.err # "" THEN Raises("run_work", "sync_source", "raised")
             ELSE Goes("sync_source", "ok", "recompile")
    /\ UNCHANGED <<syncvars, initcmd, mergecmd, mcp_src_fs, source_fs, build_fs0,
                   build_fs1, java_source_files, python_source_files, jython>>

\* Lines 408-421: the recompile script.
Recompile ==
    /\ build_pc = "recompile"
    /\ \E exit \in ExitStatuses :
        IF CheckCall(exit) # "" THEN Raises("run_work", "recompile", exit)
        ELSE Goes("recompile", exit, "obfuscate")
    /\ UNCHANGED <<syncvars, initcmd, mergecmd, buildtrees, jython>>

\* Lines 423-439: the obfuscation script; line 442 then asks whether there
\* are Python class files.
Obfuscate ==
    /\ build_pc = "obfuscate"
    /\ \E exit \in ExitStatuses :
        IF CheckCall(exit) # "" THEN Raises("run_work", "obfuscate", exit)
        ELSE Goes("obfuscate", exit,
                  IF python_class_files # {} THEN "find_jython" ELSE "package")
    /\ UNCHANGED <<syncvars, initcmd, mergecmd, buildtrees, jython>>

\* An explicit 'return 1' of run_work: run returns it.
Returns1(step, outcome) ==
    /\ events' = Append(events, Event(step, outcome))
    /\ build_result' = "1"
    /\ build_pc' = "returned"

\* Lines 442-494: find Jython.  The configuration's paths and what is at
\* them on disk are read here.
FindJython ==
    /\ build_pc = "find_jython"
    /\ \E cfg \in JythonConfigs :
        /\ jython' = cfg
        /\ LET jython_exe == IF cfg.jython_exe # "null" THEN cfg.jython_exe
                             ELSE FindExe("jython")
           IN IF jython_exe = "AttributeError"
                THEN Raises("run_work", "find_jython", "AttributeError")
              ELSE IF jython_exe # "null"
                THEN IF jython_exe # "file"
                       \* Lines 448-451.
                       THEN Returns1("find_jython", "no jython_exe")
                       ELSE Goes("find_jython", "jython_exe", "compile_python")
              ELSE LET java_exe == IF cfg.java_exe # "null" THEN cfg.java_exe
                                   ELSE FindExe("java")
                   IN IF java_exe = "AttributeError"
                        THEN Raises("run_work", "find_jython", "AttributeError")
                      \* Lines 458-491: java_error or jar_error.
                      ELSE IF java_exe # "file" \/ cfg.jython_jar # "file"
                        THEN Returns1("find_jython", "no java -jar")
                      ELSE Goes("find_jython", "java -jar", "compile_python")
    /\ UNCHANGED <<syncvars, initcmd, mergecmd, buildtrees>>

\* Lines 496-505: compile the Python sources with the command found.
CompilePython ==
    /\ build_pc = "compile_python"
    /\ \E exit \in ExitStatuses :
        IF CheckCall(exit) # "" THEN Raises("run_work", "compile_python", exit)
        ELSE Goes("compile_python", exit, "package")
    /\ UNCHANGED <<syncvars, initcmd, mergecmd, buildtrees, jython>>

\* Lines 507-581: the mod JAR is opened for writing and filled.  With
\* Python class files line 549 formats two fields from one argument, which
\* raises IndexError.
Package ==
    /\ build_pc = "package"
    /\ \E raised \in BOOLEAN :
        /\ python_class_files # {} => raised
        /\ IF raised THEN Raises("run_work", "package", "raised")
           ELSE /\ events' = Append(events, Event("package", "ok"))
                /\ build_result' = "0"
                /\ build_pc' = "returned"
    /\ UNCHANGED <<syncvars, initcmd, mergecmd, buildtrees, jython>>

BuildInit ==
    /\ SyncIdle
    /\ InitCommandIdle
    /\ MergeConfigIdle
    /\ build_pc = "init_config" /\ build_result = "" /\ events = <<>>
    /\ mcp_src_fs \in PlainTrees
    /\ source_fs \in PlainTrees
    /\ java_source_files \in SUBSET Files(source_fs)
    /\ python_source_files \in SUBSET (Files(source_fs) \ java_source_files)
    /\ build_fs \in DestTrees
    /\ build_fs0 = build_fs /\ build_fs1 = build_fs
    /\ jython = NoJython

NextBuild ==
    \/ InitConfig
    \/ InitLogging
    \/ Prepare
    \/ SyncMcp
    \/ SyncSource
    \/ Recompile
    \/ Obfuscate
    \/ FindJython
    \/ CompilePython
    \/ Package

SpecBuild == BuildInit /\ [][NextBuild]_vars

Done(step) == \E i \in DOMAIN events : events[i] = Event(step, "ok")

\* M \cup S: the files of the two calls.
BothSets == mcp_src_files \cup java_source_files \cup python_source_files

\* The three parts of the claim on the composition of lines 402 and 406.
ExactlyBothSets ==
    /\ Done("sync_source") =>
        /\ Files(build_fs) = BothSets
        /\ \A p \in mcp_src_files : build_fs1[p].kind = "file" => build_fs[p].kind = "file"
    /\ Done("sync_mcp") =>
        \A p \in java_source_files \cup python_source_files :
            build_fs0[p].kind = "file" => build_fs1[p].kind = "file"

\* No file of the two sets lies at a directory above another file of theirs.
ConflictFree == \A p, q \in BothSets : ~Beneath(p, q)

\* C26 (as claimed): after the call for the MCP sources and the call for
\* the mod's sources, both with the union of their files as keep list, the
\* files under the destination are exactly that union whatever it held
\* before; the second call deletes no file the first copied, and the first
\* deletes no file of the second's list that an earlier build left.
C26_BuildSyncsCompose == ExactlyBothSets

\* C26 (amended): the same, for two file sets that can be in one tree.
C26_BuildSyncsComposeWithoutConflict == ConflictFree => ExactlyBothSets

\* Both calls returned; the destination held a file of the mod's sources
\* from an earlier build, a file of neither set, and lacked an MCP file.
C26_Witness ==
    /\ Done("sync_source") /\ ConflictFree
    /\ \E p \in (java_source_files \cup python_source_files) \ mcp_src_files :
           build_fs0[p].kind = "file"
    /\ \E p \in mcp_src_files : build_fs0[p].kind # "file"
    /\ \E p \in RelPaths \ BothSets : Exists(build_fs0, p)

Before(i, step, outcome) == \E j \in 1..(i - 1) : events[j] = Event(step, outcome)
Scripts == {"recompile", "obfuscate", "compile_python"}

\* C27: the order of the build pipeline: both source syncs have returned
\* before the recompile script runs; the obfuscation script runs only after
\* the recompile script exited with status 0; the JAR is opened only after
\* both scripts, and the Jython compile when there are Python sources,
\* exited with status 0; a script that does not exit with status 0 is the
\* last step of the build, which then returns 1.
C27_PipelineOrder ==
    \A i \in DOMAIN events :
        /\ events[i].step = "recompile" =>
               \E k \in 1..(i - 1) : /\ events[k] = Event("sync_source", "ok")
                                     /\ Before(k, "sync_mcp", "ok")
        /\ events[i].step = "obfuscate" => Before(i, "recompile", "exit 0")
        /\ events[i].step = "package" =>
               /\ Before(i, "recompile", "exit 0")
               /\ Before(i, "obfuscate", "exit 0")
               /\ python_class_files # {} => Before(i, "compile_python", "exit 0")
        /\ (events[i].step \in Scripts /\ events[i].outcome # "exit 0") =>
               /\ i = Len(events)
               /\ build_pc = "returned" /\ build_result = "1"

\* A build with Python sources came as far as the JAR.
C27_Witness ==
    /\ python_class_files # {}
    /\ \E i \in DOMAIN events : events[i].step = "package"

RaisedOutcomes == {"raised", "exit 1", "OSError", "AttributeError"}
Last == events[Len(events)]

\* C28: run lets no exception out; a step of run_work runs only after
\* init_config and init_logging both succeeded; when init_config raises
\* nothing else runs; run returns 1 when a step raised and what run_work
\* returned otherwise.
C28_RunReportsByExitCode ==
    /\ build_result \in {"", "0", "1"}
    /\ \A i \in DOMAIN events :
        /\ events[i].step # "init_config" => Before(i, "init_config", "ok")
        /\ events[i].step \notin {"init_config", "init_logging"}
               => Before(i, "init_logging", "ok")
        /\ events[i].outcome \in RaisedOutcomes
               => i = Len(events) /\ build_pc = "returned"
    /\ build_pc = "returned" =>
        build_result = IF Last.outcome \in RaisedOutcomes THEN "1"
                       ELSE IF Last = Event("package", "ok") THEN "0"
                       ELSE "1"

\* run has returned 1 because a script of run_work could not be executed.
C28_Witness ==
    /\ build_pc = "returned" /\ build_result = "1"
    /\ events # <<>> /\ Last = Event("recompile", "OSError")

\* C29: with Python sources and no Jython executable to be found (none
\* configured, or the configured path is not a file), the build goes on
\* with the Jython JAR run by the Java executable when both are files, and
\* returns 1 there only when one of them is missing.
C29_JythonFallback ==
    \A i \in DOMAIN events :
        (events[i].step = "find_jython" /\ jython.jython_exe # "file") =>
            IF jython.java_exe = "file" /\ jython.jython_jar = "file"
              THEN events[i].outcome = "java -jar"
              ELSE events[i].outcome = "no java -jar" /\ build_result = "1"

(***************************************************************************)
(* util.merge_config (src/mcpackage/util.py, lines 102-123).  Dicts are    *)
(* objects on a heap, so that a dict changed in place shows; a value is    *)
(* None, a scalar, or the address of a dict.                               *)
(***************************************************************************)
Keys == {"x", "y"}
InnerKeys == {"x"}
Scalars == {1, 2}

None == [t |-> "none", v |-> 0]
Scalar(n) == [t |-> "scalar", v |-> n]
Ref(a) == [t |-> "dict", v |-> a]
Leaves == {None} \cup {Scalar(n) : n \in Scalars}

\* The dicts under an outer key; the dict at address root with, right
\* after it, the dicts its keys "x" and "y" refer to.
InnerDicts == UNION {[K -> Leaves] : K \in SUBSET InnerKeys}
Slot(root, key) == IF key = "x" THEN root + 1 ELSE root + 2
OuterDicts(root) ==
    {d \in UNION {[K -> Leaves \cup {Ref(Slot(root, k)) : k \in Keys}] : K \in SUBSET Keys} :
        \A k \in DOMAIN d : d[k].t = "dict" => d[k].v = Slot(root, k)}
Objects(root, d, inner) ==
    [a \in {root} \cup {Slot(root, k) : k \in {k \in DOMAIN d : d[k].t = "dict"}} |->
        IF a = root THEN d ELSE inner[a]]

\* dict[key] = value
Put(d, key, value) == (key :> value) @@ d

\* A fresh address.
NewAddr(h) == CHOOSE a \in 1..(Cardinality(DOMAIN h) + 1) : a \notin DOMAIN h

RECURSIVE MergeConfig(_, _, _)
RECURSIVE MergeItems(_, _, _, _, _)

\* merge = base in place of merge = base.copy().
MergeConfigInPlace(h, b, u) == MergeItems(h, b, b, u, SeqOf(DOMAIN h[u]))

\* Line 112: merge = base.copy(), a new dict with base's items; then the
\* loop of line 113 over update.items().
MergeConfig(h, b, u) ==
    LET m == NewAddr(h)
    IN MergeItems((m :> h[b]) @@ h, m, b, u, SeqOf(DOMAIN h[u]))

\* Lines 113-122: the items of update still to come, merged into dict m.
MergeItems(h, m, b, u, items) ==
    IF items = <<>> THEN [heap |-> h, merge |-> m, err |-> ""]
    ELSE LET key == Head(items)
             update_value == h[u][key]
         IN IF key \in DOMAIN h[b]
              THEN IF update_value.t # "none"
                     THEN LET base_value == h[b][key]
                          IN IF base_value.t = "dict"
                               THEN IF update_value.t # "dict"
                                      \* update_value.items() of a value that is no dict
                                      THEN [heap |-> h, merge |-> 0, err |-> "AttributeError"]
                                      ELSE LET r == MergeConfig(h, base_value.v, update_value.v)
                                           IN IF r.err # "" THEN r
                                              ELSE MergeItems(
                                                     [r.heap EXCEPT ![m] = Put(@, key, Ref(r.merge))],
                                                     m, b, u, Tail(items))
                             ELSE MergeItems([h EXCEPT ![m] = Put(@, key, update_value)],
                                             m, b, u, Tail(items))
                   ELSE MergeItems(h, m, b, u, Tail(items))
            ELSE MergeItems([h EXCEPT ![m] = Put(@, key, update_value)], m, b, u, Tail(items))

\* build.py:182: util.merge_config(DEFAULT_CONFIG, config).
MergeCall ==
    /\ merge_pc = "start"
    /\ LET r == MergeConfig(heap, base, update)
       IN /\ heap' = r.heap
          /\ merge' = r.merge
          /\ merge_pc' = IF r.err = "" THEN "returned" ELSE "raised"
    /\ UNCHANGED <<syncvars, initcmd, buildcmd, base, update>>

MergeInit ==
    /\ SyncIdle
    /\ InitCommandIdle
    /\ BuildCommandIdle
    /\ base = 1 /\ update = 4
    /\ \E bd \in OuterDicts(1), ud \in OuterDicts(4), inner \in [{2, 3, 5, 6} -> InnerDicts] :
           heap = Objects(1, bd, inner) @@ Objects(4, ud, inner)
    /\ merge = 0
    /\ merge_pc = "start"

NextMerge == MergeCall

SpecMerge == MergeInit /\ [][NextMerge]_vars

\* A value with the dicts it refers to in place of their addresses.
RECURSIVE Deep(_, _)
Deep(h, value) ==
    IF value.t = "dict"
      THEN [t |-> "dict", v |-> [k \in DOMAIN h[value.v] |-> Deep(h, h[value.v][k])]]
      ELSE value

\* Dict r is dict b with dict u merged into it by the claim's rule.
RECURSIVE Merged(_, _, _)
Merged(r, b, u) ==
    /\ DOMAIN r = DOMAIN b \cup DOMAIN u
    /\ \A k \in DOMAIN b :
        IF k \in DOMAIN u /\ u[k].t # "none"
          THEN IF b[k].t = "dict"
                 THEN /\ r[k].t = "dict" /\ u[k].t = "dict"
                      /\ Merged(r[k].v, b[k].v, u[k].v)
                 ELSE r[k] = u[k]
          ELSE r[k] = b[k]
    /\ \A k \in DOMAIN u \ DOMAIN b : r[k] = u[k]

\* C30: when merge_config(base, update) returns, the result has every key
\* of base, with update's value where update gives one that is not None
\* (merged by the same rule where base's value is a dict) and base's value
\* elsewhere; the keys only update has are added; and every dict there was
\* before the call, base, update and the dicts inside them, is as it was.
C30_MergeKeepsDefaults ==
    [][merge_pc' = "returned" =>
         /\ \A a \in DOMAIN heap : heap'[a] = heap[a]
         /\ merge' \notin DOMAIN heap
         /\ Merged(Deep(heap', Ref(merge')).v,
                   Deep(heap, Ref(base)).v, Deep(heap, Ref(update)).v)]_vars

\* A call has returned that merged a dict of update into a dict of base,
\* with a key only update's dict has, and kept a default that update gave
\* as None.
C30_Witness ==
    /\ merge_pc = "returned"
    /\ {"x", "y"} \subseteq DOMAIN heap[base] \cap DOMAIN heap[update]
    /\ heap[base]["x"].t = "dict" /\ heap[update]["x"].t = "dict"
    /\ DOMAIN heap[heap[base]["x"].v] = {}
    /\ DOMAIN heap[heap[update]["x"].v] = {"x"}
    /\ heap[base]["y"].t = "scalar" /\ heap[update]["y"] = None
    /\ heap[merge]["y"] = heap[base]["y"]

====
